---- MODULE Spec2Model ----
(***************************************************************************)
(* CSRGraph (runtime_lib/infra_gapbs/graph.h): ownership of the raw index, *)
(* neighbor and flags arrays and of the segment catalog across             *)
(* construction, copy, move, assignment and destruction, and the           *)
(* partitioning done by buildPullSegmentedGraphs.                          *)
(*                                                                         *)
(* Pointers are integers: NULL, WILD (an address that is no allocation) or *)
(* the id of an allocation.  Allocation ids are never reused, so a         *)
(* released allocation stays recognisable.  frees[a] counts how often      *)
(* allocation a has been passed to delete.                                 *)
(***************************************************************************)
EXTENDS Integers, Sequences, FiniteSets, TLC

\* ---------------------------------------------------------------- bounds
NumObjs == 3
MaxOps == 4
MaxRegs == 2
MaxNodes == 3
MaxEdges == 3
MaxSegs == 3

Objs == 1..NumObjs
\* std::map iterates its keys in order
LabelOrder == <<"s1", "s2">>
Labels == {LabelOrder[k] : k \in 1..Len(LabelOrder)}

\* ---------------------------------------------------------------- pointers
NULL == 0
WILD == -1

OutIndexOf(i) == 10 * i + 1
OutNeighOf(i) == 10 * i + 2
InIndexOf(i) == 10 * i + 3
InNeighOf(i) == 10 * i + 4
FlagsOf(i) == 10 * i + 5
RegOf(k) == 1000 + k

\* ---------------------------------------------------------------- helpers
RECURSIVE Flatten(_)
Flatten(lists) ==
  IF lists = <<>> THEN <<>> ELSE Head(lists) \o Flatten(Tail(lists))

RECURSIVE SumLen(_)
SumLen(lists) ==
  IF lists = <<>> THEN 0 ELSE Len(Head(lists)) + SumLen(Tail(lists))

\* offsets[n] of the builder: entry k (1-based) is the start of vertex k-1
PrefixOffsets(lists) ==
  [k \in 1..(Len(lists) + 1) |-> SumLen(SubSeq(lists, 1, k - 1))]

\* C++ integer division truncates toward zero
CDiv(a, b) ==
  IF a >= 0 THEN a \div b ELSE -((-a) \div b)

Count(seq, x) == Cardinality({k \in 1..Len(seq) : seq[k] = x})

Range(seq) == {seq[k] : k \in 1..Len(seq)}

\* ---------------------------------------------------------------- state
VARIABLES
  obj,          \* obj[i]: the fields of CSRGraph instance i
  frees,        \* allocation id -> number of times it was passed to delete
  indexMem,     \* index array id -> [base, offs]: index[n] = base + offs[n]
  neighMem,     \* neighbor array id -> sequence of DestID_ entries
  segMem,       \* registry id -> the GraphSegments object
  nextReg,      \* number of registries allocated so far
  heapFault,    \* delete of a pointer that is no allocation, or a faulting read
  movedFrom,    \* instances that were the source of a move and not reused since
  steps,        \* number of operations performed so far
  lastOp,       \* the operation of the last step
  lastReleased, \* the pointers the last step passed to delete, in order
  files,        \* segment index -> the words of the segment file, where one exists
  cmp,          \* the NodeWeight operands under comparison and the results
  bfs           \* the state of the generated BFS driver

vars == <<obj, frees, indexMem, neighMem, segMem, nextReg, heapFault,
          movedFrom, steps, lastOp, lastReleased, files, cmp, bfs>>

\* no segment file exists, nothing is being compared, no driver is running
NoFiles == [k \in {} |-> <<>>]

NoCmp == [pc |-> "none"]

NoBfs == [pc |-> "none"]

Elsewhere == files = NoFiles /\ cmp = NoCmp /\ bfs = NoBfs

EmptyMap == [l \in {} |-> NULL]

\* An instance slot that holds no object (before construction).
NoObj ==
  [st |-> "none", flags_ |-> NULL, is_transpose_ |-> FALSE, directed_ |-> FALSE,
   num_nodes_ |-> -1, num_edges_ |-> -1,
   out_index_ |-> NULL, out_neighbors_ |-> NULL,
   in_index_ |-> NULL, in_neighbors_ |-> NULL,
   label_to_segment |-> EmptyMap, destructor_free |-> FALSE]

Live(i) == obj[i].st = "live"

Allocated == DOMAIN frees

Released(p) == p \in Allocated /\ frees[p] > 0

\* A second delete of an allocation, a delete of a pointer that is no
\* allocation, or a faulting read of released storage ends the run.
Crashed == heapFault \/ \E a \in Allocated : frees[a] > 1

\* The program is running and may perform one more operation.
Running == steps < MaxOps /\ ~Crashed

\* A member function of instance i can be called.
Callable(i) == Live(i) /\ Running

\* Storage for instance i is the next unused slot: instances are named in
\* the order they are constructed.
Fresh(i) ==
  /\ obj[i].st = "none"
  /\ \A k \in Objs : k < i => obj[k].st # "none"
  /\ Running

\* The value read from a pointer member that no initializer has set.
\* NULL, or WILD standing for any indeterminate non-null address.
Uninit == {NULL, WILD}

\* src: the other instance of a copy or move, the numSegments argument of a
\* partitioning or a lookup's segment id, else 0
Op(name, dst, src) == [op |-> name, dst |-> dst, src |-> src]

\* delete / delete[] applied to the pointers of seq, in order
FreesAfter(seq) ==
  [a \in Allocated |-> frees[a] + Count(seq, a)]

FaultAfter(seq) ==
  heapFault \/ \E k \in 1..Len(seq) : seq[k] \notin Allocated

\* ---------------------------------------------------------------- graphs
\* What the builder hands to a constructor: per-vertex out- and in-lists of
\* DestID_ entries.  An entry is <<v>> (a bare NodeID_) or <<v, w>>
\* (NodeWeight).
Entry(v) == <<v>>

\* the segment count the lifecycle runs partition with
LifeSegs == 2

\* the graph the builder hands over in the lifecycle runs: 0 -> 1, 1 -> 0
LifeGraph ==
  [outs |-> << <<Entry(1)>>, <<Entry(0)>> >>,
   ins  |-> << <<Entry(1)>>, <<Entry(0)>> >>]

\* the directed cycle 0 -> 1, 1 -> 2, 2 -> 3, 3 -> 0
CycleGraph ==
  [outs |-> << <<Entry(1)>>, <<Entry(2)>>, <<Entry(3)>>, <<Entry(0)>> >>,
   ins  |-> << <<Entry(3)>>, <<Entry(0)>>, <<Entry(1)>>, <<Entry(2)>> >>]


\* GenIndex: index[n] = neighs + offsets[n]
GenIndex(lists, neighs) == [base |-> neighs, offs |-> PrefixOffsets(lists)]

\* index[n] - index[0] for an index array, entries 1-based in offs
IndexSpan(ix, n) == ix.offs[n + 1] - ix.offs[1]

WithAllocs(f, new) ==
  [a \in (DOMAIN f) \cup new |-> IF a \in DOMAIN f THEN f[a] ELSE 0]

WithMem(m, a, v) ==
  [x \in (DOMAIN m) \cup {a} |-> IF x = a THEN v ELSE m[x]]

\* ---------------------------------------------------------------- release
IfSet(cond, p) == IF cond THEN <<p>> ELSE <<>>

\* delete of every registry of the catalog, in key order (delete of a null
\* pointer does nothing)
RECURSIVE CatalogDeletes(_, _)
CatalogDeletes(map, k) ==
  IF k > Len(LabelOrder) THEN <<>>
  ELSE IfSet(LabelOrder[k] \in DOMAIN map /\ map[LabelOrder[k]] # NULL,
             IF LabelOrder[k] \in DOMAIN map THEN map[LabelOrder[k]] ELSE NULL)
       \o CatalogDeletes(map, k + 1)

\* ReleaseResources(): the pointers it passes to delete, in order
ReleaseResources(o) ==
  IF ~o.destructor_free THEN <<>>
  ELSE IfSet(o.out_index_ # NULL, o.out_index_)
       \o IfSet(o.out_neighbors_ # NULL, o.out_neighbors_)
       \o (IF o.directed_
           THEN IfSet(o.in_index_ # NULL /\ o.in_index_ # o.out_index_, o.in_index_)
                \o IfSet(o.in_neighbors_ # NULL /\ o.in_neighbors_ # o.out_neighbors_,
                         o.in_neighbors_)
           ELSE <<>>)
       \o IfSet(o.flags_ # NULL, o.flags_)
       \o CatalogDeletes(o.label_to_segment, 1)

\* A destructor that does not look at is_transpose_.
DestructorIgnoresTranspose(o) ==
  IF ~o.destructor_free THEN <<>> ELSE ReleaseResources(o)

\* ~CSRGraph(): the pointers it passes to delete
DestructorReleases(o) ==
  IF ~o.destructor_free THEN <<>>
  ELSE IF ~o.is_transpose_ THEN ReleaseResources(o) ELSE <<>>

\* the guard of both operator= before the fields are overwritten
AssignReleases(o) ==
  IF ~o.is_transpose_ /\ o.destructor_free THEN ReleaseResources(o) ELSE <<>>

\* the moved-from reset both move operations apply to `other`
ResetMoved(o) ==
  [o EXCEPT !.num_edges_ = -1, !.num_nodes_ = -1,
            !.out_index_ = NULL, !.out_neighbors_ = NULL,
            !.in_index_ = NULL, !.in_neighbors_ = NULL,
            !.flags_ = NULL]

\* ---------------------------------------------------------------- Init
Init ==
  /\ obj = [i \in Objs |-> NoObj]
  /\ frees = [a \in {} |-> 0]
  /\ indexMem = [a \in {} |-> 0]
  /\ neighMem = [a \in {} |-> 0]
  /\ segMem = [a \in {} |-> 0]
  /\ nextReg = 0
  /\ heapFault = FALSE
  /\ movedFrom = {}
  /\ steps = 0
  /\ lastOp = Op("init", 0, 0)
  /\ lastReleased = <<>>
  /\ Elsewhere

Step == steps' = steps + 1

NoRelease ==
  /\ lastReleased' = <<>>
  /\ UNCHANGED <<frees, heapFault>>

Release(seq) ==
  /\ lastReleased' = seq
  /\ frees' = FreesAfter(seq)
  /\ heapFault' = FaultAfter(seq)

\* ---------------------------------------------------------------- constructors
\* CSRGraph()
CSRGraphDefault(i) ==
  /\ Fresh(i)
  /\ obj' = [obj EXCEPT ![i] =
       [st |-> "live", flags_ |-> NULL, is_transpose_ |-> FALSE,
        directed_ |-> FALSE, num_nodes_ |-> -1, num_edges_ |-> -1,
        out_index_ |-> NULL, out_neighbors_ |-> NULL,
        in_index_ |-> NULL, in_neighbors_ |-> NULL,
        label_to_segment |-> EmptyMap, destructor_free |-> TRUE]]
  /\ Step
  /\ UNCHANGED <<files, cmp, bfs>>
  /\ lastOp' = Op("default_ctor", i, 0)
  /\ NoRelease
  /\ UNCHANGED <<indexMem, neighMem, segMem, nextReg, movedFrom>>

\* CSRGraph(num_nodes, index, neighs): the builder's arrays become out and in;
\* is_transpose_ has no initializer.
CSRGraphUndirected(i, g, garbage) ==
  /\ Fresh(i)
  /\ LET ix == GenIndex(g.outs, OutNeighOf(i))
         n == Len(g.outs)
     IN /\ obj' = [obj EXCEPT ![i] =
             [st |-> "live", flags_ |-> FlagsOf(i), is_transpose_ |-> garbage,
              directed_ |-> FALSE, num_nodes_ |-> n,
              num_edges_ |-> CDiv(IndexSpan(ix, n), 2),
              out_index_ |-> OutIndexOf(i), out_neighbors_ |-> OutNeighOf(i),
              in_index_ |-> OutIndexOf(i), in_neighbors_ |-> OutNeighOf(i),
              label_to_segment |-> EmptyMap, destructor_free |-> TRUE]]
        /\ indexMem' = WithMem(indexMem, OutIndexOf(i), ix)
        /\ neighMem' = WithMem(neighMem, OutNeighOf(i), Flatten(g.outs))
  /\ frees' = WithAllocs(frees, {OutIndexOf(i), OutNeighOf(i), FlagsOf(i)})
  /\ Step
  /\ UNCHANGED <<files, cmp, bfs>>
  /\ lastOp' = Op("undirected_ctor", i, 0)
  /\ lastReleased' = <<>>
  /\ UNCHANGED <<segMem, nextReg, heapFault, movedFrom>>

\* CSRGraph(num_nodes, out_index, out_neighs, in_index, in_neighs): the
\* fields it sets, for the builder's arrays of graph g
DirectedFields(i, g) ==
  [st |-> "live", flags_ |-> FlagsOf(i), is_transpose_ |-> FALSE,
   directed_ |-> TRUE, num_nodes_ |-> Len(g.outs),
   num_edges_ |-> IndexSpan(GenIndex(g.outs, OutNeighOf(i)), Len(g.outs)),
   out_index_ |-> OutIndexOf(i), out_neighbors_ |-> OutNeighOf(i),
   in_index_ |-> InIndexOf(i), in_neighbors_ |-> InNeighOf(i),
   label_to_segment |-> EmptyMap, destructor_free |-> TRUE]

\* the builder's index arrays of graph g for instance i
BuilderIndex(m, i, g) ==
  WithMem(WithMem(m, OutIndexOf(i), GenIndex(g.outs, OutNeighOf(i))),
          InIndexOf(i), GenIndex(g.ins, InNeighOf(i)))

\* the builder's neighbor arrays of graph g for instance i
BuilderNeighs(m, i, g) ==
  WithMem(WithMem(m, OutNeighOf(i), Flatten(g.outs)), InNeighOf(i), Flatten(g.ins))

DirectedAllocs(i) ==
  {OutIndexOf(i), OutNeighOf(i), InIndexOf(i), InNeighOf(i), FlagsOf(i)}

CSRGraphDirected(i, g) ==
  /\ Fresh(i)
  /\ obj' = [obj EXCEPT ![i] = DirectedFields(i, g)]
  /\ indexMem' = BuilderIndex(indexMem, i, g)
  /\ neighMem' = BuilderNeighs(neighMem, i, g)
  /\ frees' = WithAllocs(frees, DirectedAllocs(i))
  /\ Step
  /\ UNCHANGED <<files, cmp, bfs>>
  /\ lastOp' = Op("directed_ctor", i, 0)
  /\ lastReleased' = <<>>
  /\ UNCHANGED <<segMem, nextReg, heapFault, movedFrom>>

\* CSRGraph(num_nodes, out_index, out_neighs, in_index, in_neighs, true) over
\* the arrays of instance j in reverse role: a transpose view of j.  The
\* constructor reads out_index[num_nodes] - out_index[0], so j's in-index
\* must be storage that can be read.
CSRGraphTranspose(i, j) ==
  /\ Fresh(i)
  /\ Live(j)
  /\ i # j
  /\ obj[j].in_index_ \in DOMAIN indexMem
  /\ ~Released(obj[j].in_index_)
  /\ obj' = [obj EXCEPT ![i] =
       [st |-> "live", flags_ |-> FlagsOf(i), is_transpose_ |-> TRUE,
        directed_ |-> TRUE, num_nodes_ |-> obj[j].num_nodes_,
        num_edges_ |-> IndexSpan(indexMem[obj[j].in_index_], obj[j].num_nodes_),
        out_index_ |-> obj[j].in_index_, out_neighbors_ |-> obj[j].in_neighbors_,
        in_index_ |-> obj[j].out_index_, in_neighbors_ |-> obj[j].out_neighbors_,
        label_to_segment |-> EmptyMap, destructor_free |-> TRUE]]
  /\ frees' = WithAllocs(frees, {FlagsOf(i)})
  /\ Step
  /\ UNCHANGED <<files, cmp, bfs>>
  /\ lastOp' = Op("transpose_ctor", i, j)
  /\ lastReleased' = <<>>
  /\ UNCHANGED <<indexMem, neighMem, segMem, nextReg, heapFault, movedFrom>>

\* A copy constructor that takes over the ownership flag of other.
CopyFieldsOwning(other, garbage) ==
  [st |-> "live", flags_ |-> garbage, is_transpose_ |-> FALSE,
   directed_ |-> other.directed_, num_nodes_ |-> other.num_nodes_,
   num_edges_ |-> other.num_edges_,
   out_index_ |-> other.out_index_, out_neighbors_ |-> other.out_neighbors_,
   in_index_ |-> other.in_index_, in_neighbors_ |-> other.in_neighbors_,
   label_to_segment |-> EmptyMap, destructor_free |-> other.destructor_free]

\* CSRGraph(CSRGraph& other): the fields it sets.  flags_ has no
\* initializer, the catalog starts empty.
CopyFields(other, garbage) ==
  [st |-> "live", flags_ |-> garbage, is_transpose_ |-> FALSE,
   directed_ |-> other.directed_, num_nodes_ |-> other.num_nodes_,
   num_edges_ |-> other.num_edges_,
   out_index_ |-> other.out_index_, out_neighbors_ |-> other.out_neighbors_,
   in_index_ |-> other.in_index_, in_neighbors_ |-> other.in_neighbors_,
   label_to_segment |-> EmptyMap, destructor_free |-> FALSE]

CSRGraphCopy(i, j, garbage) ==
  /\ Fresh(i)
  /\ Live(j)
  /\ obj' = [obj EXCEPT ![i] = CopyFields(obj[j], garbage)]
  /\ Step
  /\ UNCHANGED <<files, cmp, bfs>>
  /\ lastOp' = Op("copy_ctor", i, j)
  /\ NoRelease
  /\ UNCHANGED <<indexMem, neighMem, segMem, nextReg, movedFrom>>

\* CSRGraph(CSRGraph&& other): flags_ has no initializer, the catalog starts
\* empty and other keeps its own.
CSRGraphMove(i, j, garbage) ==
  /\ Fresh(i)
  /\ Live(j)
  /\ obj' = [obj EXCEPT
       ![i] =
         [st |-> "live", flags_ |-> garbage, is_transpose_ |-> FALSE,
          directed_ |-> obj[j].directed_, num_nodes_ |-> obj[j].num_nodes_,
          num_edges_ |-> obj[j].num_edges_,
          out_index_ |-> obj[j].out_index_, out_neighbors_ |-> obj[j].out_neighbors_,
          in_index_ |-> obj[j].in_index_, in_neighbors_ |-> obj[j].in_neighbors_,
          label_to_segment |-> EmptyMap,
          destructor_free |-> obj[j].destructor_free],
       ![j] = ResetMoved(obj[j])]
  /\ movedFrom' = movedFrom \cup {j}
  /\ Step
  /\ UNCHANGED <<files, cmp, bfs>>
  /\ lastOp' = Op("move_ctor", i, j)
  /\ NoRelease
  /\ UNCHANGED <<indexMem, neighMem, segMem, nextReg>>

\* ---------------------------------------------------------------- destructor
\* ~CSRGraph()
Destructor(i) ==
  /\ Callable(i)
  /\ Release(DestructorReleases(obj[i]))
  /\ obj' = [obj EXCEPT ![i] = [NoObj EXCEPT !.st = "dead"]]
  /\ Step
  /\ UNCHANGED <<files, cmp, bfs>>
  /\ lastOp' = Op("destroy", i, 0)
  /\ UNCHANGED <<indexMem, neighMem, segMem, nextReg, movedFrom>>

\* ---------------------------------------------------------------- assignment
\* operator=(CSRGraph& other)
CopyAssign(i, j) ==
  /\ Callable(i)
  /\ Live(j)
  /\ IF i = j
     THEN /\ NoRelease
          /\ UNCHANGED <<obj, movedFrom>>
     ELSE /\ Release(AssignReleases(obj[i]))
          /\ obj' = [obj EXCEPT ![i] =
               [@ EXCEPT !.directed_ = obj[j].directed_,
                         !.num_edges_ = obj[j].num_edges_,
                         !.num_nodes_ = obj[j].num_nodes_,
                         !.out_index_ = obj[j].out_index_,
                         !.out_neighbors_ = obj[j].out_neighbors_,
                         !.in_index_ = obj[j].in_index_,
                         !.in_neighbors_ = obj[j].in_neighbors_,
                         !.destructor_free = FALSE]]
          /\ movedFrom' = movedFrom \ {i}
  /\ Step
  /\ UNCHANGED <<files, cmp, bfs>>
  /\ lastOp' = Op("copy_assign", i, j)
  /\ UNCHANGED <<indexMem, neighMem, segMem, nextReg>>

\* operator=(CSRGraph&& other)
MoveAssign(i, j) ==
  /\ Callable(i)
  /\ Live(j)
  /\ IF i = j
     THEN /\ NoRelease
          /\ UNCHANGED <<obj, movedFrom>>
     ELSE /\ Release(AssignReleases(obj[i]))
          /\ obj' = [obj EXCEPT
               ![i] =
                 [@ EXCEPT !.directed_ = obj[j].directed_,
                           !.num_edges_ = obj[j].num_edges_,
                           !.num_nodes_ = obj[j].num_nodes_,
                           !.out_index_ = obj[j].out_index_,
                           !.out_neighbors_ = obj[j].out_neighbors_,
                           !.in_index_ = obj[j].in_index_,
                           !.in_neighbors_ = obj[j].in_neighbors_,
                           !.destructor_free = obj[j].destructor_free],
               ![j] = ResetMoved(obj[j])]
          /\ movedFrom' = (movedFrom \ {i}) \cup {j}
  /\ Step
  /\ UNCHANGED <<files, cmp, bfs>>
  /\ lastOp' = Op("move_assign", i, j)
  /\ UNCHANGED <<indexMem, neighMem, segMem, nextReg>>

\* ---------------------------------------------------------------- segments
\* SegmentedGraph and GraphSegments (segmentgraph.h).
\* counts: the per-vertex edge counters of the counting pass, as pairs
\* <<d, count>> in the order the vertices were first counted.
NewSegmentedGraph ==
  [numVertices |-> 0, numEdges |-> 0, counts |-> <<>>,
   graphId |-> <<>>, edgeArray |-> <<>>, vertexArray |-> <<>>, cursor |-> <<>>]

\* an element of edgeArray the fill pass has not written
Unwritten == <<-1>>

PosOf(seq, d) == CHOOSE k \in 1..Len(seq) : seq[k] = d

\* countEdge(d): increment the counter of vertex d
countEdge(sg, d) ==
  LET seen == {k \in 1..Len(sg.counts) : sg.counts[k][1] = d}
  IN IF seen = {}
     THEN [sg EXCEPT !.numEdges = @ + 1, !.numVertices = @ + 1,
                     !.counts = Append(@, <<d, 1>>)]
     ELSE LET k == CHOOSE x \in seen : TRUE
          IN [sg EXCEPT !.numEdges = @ + 1,
                        !.counts[k] = <<d, sg.counts[k][2] + 1>>]

RECURSIVE SumCounts(_, _)
SumCounts(counts, k) ==
  IF k = 0 THEN 0 ELSE counts[k][2] + SumCounts(counts, k - 1)

\* allocate(): size the arrays from the counts
allocate(sg) ==
  [sg EXCEPT !.graphId = [k \in 1..sg.numVertices |-> sg.counts[k][1]],
             !.vertexArray = [k \in 1..(sg.numVertices + 1) |->
                                 SumCounts(sg.counts, k - 1)],
             !.edgeArray = [k \in 1..sg.numEdges |-> Unwritten],
             !.cursor = [k \in 1..sg.numVertices |-> 0]]

\* addEdge(d, s): write s at the running cursor of vertex d
addEdge(sg, d, s) ==
  LET j == PosOf(sg.graphId, d)
      pos == sg.vertexArray[j] + sg.cursor[j]
  IN [sg EXCEPT !.edgeArray[pos + 1] = s, !.cursor[j] = @ + 1]

\* GraphSegments(numSegments, numa_aware)
NewGraphSegments(numSegments) ==
  [numSegments |-> numSegments,
   segments |-> [k \in 1..numSegments |-> NewSegmentedGraph]]

\* GraphSegments::allocate()
allocateAll(gs) ==
  [gs EXCEPT !.segments = [k \in 1..gs.numSegments |-> allocate(gs.segments[k])]]

\* ---------------------------------------------------------------- neighborhoods
\* vertices(): Range<NodeID_>(num_nodes()), in order
Vertices(n) == [k \in 1..(IF n > 0 THEN n ELSE 0) |-> k - 1]

\* Neighborhood(n, g_index): the entries from g_index[n] up to g_index[n+1]
Neighborhood(n, ix, neighs) ==
  SubSeq(neighs[ix.base], ix.offs[n + 1] + 1, ix.offs[n + 2])

\* in_neigh(d) of every vertex d, read through in_index_
InLists(o) ==
  LET vs == Vertices(o.num_nodes_)
  IN [k \in 1..Len(vs) |-> Neighborhood(vs[k], indexMem[o.in_index_], neighMem)]

\* The (d, s) pairs of "for d in vertices() for s in in_neigh(d)", in order
RECURSIVE VertexPairs(_, _)
VertexPairs(lists, k) ==
  IF k > Len(lists) THEN <<>>
  ELSE [p \in 1..Len(lists[k]) |-> <<k - 1, lists[k][p]>>]
       \o VertexPairs(lists, k + 1)

\* in_neigh reads an index or neighbor array that has been released
ReadsReleased(o) ==
  /\ o.num_nodes_ > 0
  /\ \/ Released(o.in_index_)
     \/ Released(indexMem[o.in_index_].base)

\* ---------------------------------------------------------------- partitioning
IsNodeWeight(s) == Len(s) = 2

\* A segment_id taken from the weight of a weighted entry.
SegmentIdByWeight(s, segmentRange) ==
  IF IsNodeWeight(s)
  THEN CDiv(s[2], segmentRange)
  ELSE CDiv(s[1], segmentRange)

\* segment_id of an inbound neighbor s
SegmentId(s, segmentRange) ==
  IF IsNodeWeight(s)
  THEN CDiv(s[1], segmentRange)     \* static_cast<NodeWeight<>>(s).v / segmentRange
  ELSE CDiv(s[1], segmentRange)     \* s / segmentRange

\* A segment_id taken from the vertex d whose in-list is read.
SegmentIdByDest(pair, segmentRange) == CDiv(pair[1], segmentRange)

\* the segment the loop body picks for the pair (d, s): segment_id of s
SegmentIdOfPair(pair, segmentRange) == SegmentId(pair[2], segmentRange)

RECURSIVE CountPass(_, _, _)
CountPass(gs, pairs, segmentRange) ==
  IF pairs = <<>> THEN gs
  ELSE LET id == SegmentIdOfPair(Head(pairs), segmentRange)
       IN CountPass([gs EXCEPT !.segments[id + 1] = countEdge(@, Head(pairs)[1])],
                    Tail(pairs), segmentRange)

RECURSIVE FillPass(_, _, _)
FillPass(gs, pairs, segmentRange) ==
  IF pairs = <<>> THEN gs
  ELSE LET id == SegmentIdOfPair(Head(pairs), segmentRange)
       IN FillPass([gs EXCEPT !.segments[id + 1] =
                       addEdge(@, Head(pairs)[1], Head(pairs)[2])],
                   Tail(pairs), segmentRange)

\* A segmentRange rounded down, and at least 1.
SegmentRangeFloor(num_nodes, numSegments) ==
  IF CDiv(num_nodes, numSegments) < 1 THEN 1 ELSE CDiv(num_nodes, numSegments)

\* int segmentRange = (num_nodes() + numSegments - 1) / numSegments
SegmentRange(num_nodes, numSegments) ==
  CDiv(num_nodes + numSegments - 1, numSegments)

\* A fill pass that stops one vertex early.
PartitionFillShort(lists, num_nodes, numSegments) ==
  LET segmentRange == SegmentRange(num_nodes, numSegments)
      pairs == VertexPairs(lists, 1)
      counted == CountPass(NewGraphSegments(numSegments), pairs, segmentRange)
  IN FillPass(allocateAll(counted),
              VertexPairs(SubSeq(lists, 1, Len(lists) - 1), 1), segmentRange)

\* The registry buildPullSegmentedGraphs computes from the in-lists.
Partition(lists, num_nodes, numSegments) ==
  LET segmentRange == SegmentRange(num_nodes, numSegments)
      pairs == VertexPairs(lists, 1)
      counted == CountPass(NewGraphSegments(numSegments), pairs, segmentRange)
  IN FillPass(allocateAll(counted), pairs, segmentRange)

\* Some segment_id of the passes is no index into the segments of the
\* registry, so getSegmentedGraph(segment_id) reads past their end.
IdOutOfRange(pairs, num_nodes, numSegments) ==
  /\ pairs # <<>>
  /\ \/ numSegments = 0
     \/ \E k \in 1..Len(pairs) :
          SegmentIdOfPair(pairs[k], SegmentRange(num_nodes, numSegments))
            \notin 0..(numSegments - 1)

\* What the caller of the last operation observes.  No operation of the
\* container returns a status or throws: it returns, or the run faults.
Outcome == IF heapFault THEN "fault" ELSE "returned"

\* buildPullSegmentedGraphs(label, numSegments): the new registry replaces the
\* catalog entry of label, whose previous pointer is overwritten.  A read
\* of released storage either still finds the old contents or faults; the
\* division by a zero numSegments either traps or yields 0; a read past the
\* end of the segments faults.
buildPullSegmentedGraphs(i, label, numSegments, fault) ==
  /\ Callable(i)
  /\ nextReg < MaxRegs
  /\ fault => (ReadsReleased(obj[i]) \/ numSegments = 0)
  /\ LET r == RegOf(nextReg + 1)
         o == obj[i]
         aborts == fault \/ IdOutOfRange(VertexPairs(InLists(o), 1),
                                         o.num_nodes_, numSegments)
     IN /\ frees' = WithAllocs(frees, {r})
        /\ obj' = [obj EXCEPT ![i].label_to_segment = WithMem(@, label, r)]
        /\ segMem' = WithMem(segMem, r,
             IF aborts \/ numSegments = 0 THEN NewGraphSegments(numSegments)
             ELSE Partition(InLists(o), o.num_nodes_, numSegments))
        /\ heapFault' = (heapFault \/ aborts)
  /\ nextReg' = nextReg + 1
  /\ movedFrom' = movedFrom \ {i}
  /\ Step
  /\ UNCHANGED <<files, cmp, bfs>>
  /\ lastOp' = Op("build", i, numSegments)
  /\ lastReleased' = <<>>
  /\ UNCHANGED <<indexMem, neighMem>>

Next ==
  \/ \E i \in Objs : CSRGraphDefault(i)
  \/ \E i \in Objs, t \in BOOLEAN : CSRGraphUndirected(i, LifeGraph, t)
  \/ \E i \in Objs : CSRGraphDirected(i, LifeGraph)
  \/ \E i, j \in Objs : CSRGraphTranspose(i, j)
  \/ \E i, j \in Objs : \E p \in Uninit : CSRGraphCopy(i, j, p)
  \/ \E i, j \in Objs : \E p \in Uninit : CSRGraphMove(i, j, p)
  \/ \E i \in Objs : Destructor(i)
  \/ \E i, j \in Objs : CopyAssign(i, j)
  \/ \E i, j \in Objs : MoveAssign(i, j)
  \/ \E i \in Objs, l \in Labels, f \in BOOLEAN :
        buildPullSegmentedGraphs(i, l, LifeSegs, f)

Spec == Init /\ [][Next]_vars

\* ---------------------------------------------------------------- lookups
\* label_to_segment[label]: std::map::operator[] inserts a null pointer for
\* a key that is absent
Subscript(map, label) ==
  IF label \in DOMAIN map THEN map ELSE WithMem(map, label, NULL)

\* The -> applied to label_to_segment[label] by both lookups: a null
\* pointer faults; a released registry still shows its old contents or
\* faults.
Lookup(i, label, name, arg, fault) ==
  /\ Callable(i)
  /\ LET map == Subscript(obj[i].label_to_segment, label)
     IN /\ fault => Released(map[label])
        /\ map[label] # NULL => map[label] \in DOMAIN segMem
        /\ obj' = [obj EXCEPT ![i].label_to_segment = map]
        /\ heapFault' = (heapFault \/ fault \/ map[label] = NULL)
  /\ Step
  /\ lastOp' = Op(name, i, arg)
  /\ lastReleased' = <<>>
  /\ UNCHANGED <<frees, indexMem, neighMem, segMem, nextReg, movedFrom,
                 files, cmp, bfs>>

\* getSegmentedGraph(label, id)
getSegmentedGraph(i, label, id, fault) ==
  Lookup(i, label, "getSegmentedGraph", id, fault)

\* getNumSegments(label)
getNumSegments(i, label, fault) ==
  Lookup(i, label, "getNumSegments", 0, fault)

\* the container's operations with the two lookups
NextCatalog ==
  \/ Next
  \/ \E i \in Objs, l \in Labels, id \in 0..(LifeSegs - 1), f \in BOOLEAN :
       getSegmentedGraph(i, l, id, f)
  \/ \E i \in Objs, l \in Labels, f \in BOOLEAN : getNumSegments(i, l, f)

SpecCatalog == Init /\ [][NextCatalog]_vars

\* ---------------------------------------------------------------- partition inputs
\* Lists of at most b vertex ids below n
IdLists(n, b) == UNION {[1..m -> 0..(n - 1)] : m \in 0..b}

\* Families of k in-lists over n vertices with at most b entries in all
RECURSIVE IdFamilies(_, _, _)
IdFamilies(k, n, b) ==
  IF k = 0 THEN {<<>>}
  ELSE UNION {{<<l>> \o f : f \in IdFamilies(k - 1, n, b - Len(l))} :
                l \in IdLists(n, b)}

\* the weight the builder attaches to edge s -> d
WeightOf(d, s, n) == (d + s + 1) % n

\* the in-lists of DestID_ entries for a family of id lists
AsEntries(fam, weighted) ==
  [k \in 1..Len(fam) |->
     [p \in 1..Len(fam[k]) |->
        IF weighted
        THEN <<fam[k][p], WeightOf(k - 1, fam[k][p], Len(fam))>>
        ELSE <<fam[k][p]>>]]

\* the out-lists the builder derives from the in-lists: u -> d for every
\* entry u of in-list d, with the entry's weight
RECURSIVE Selected(_, _)
Selected(pairs, u) ==
  IF pairs = <<>> THEN <<>>
  ELSE (IF Head(pairs)[2][1] = u
        THEN <<[Head(pairs)[2] EXCEPT ![1] = Head(pairs)[1]]>>
        ELSE <<>>) \o Selected(Tail(pairs), u)

Inverse(ins) ==
  [k \in 1..Len(ins) |-> Selected(VertexPairs(ins, 1), k - 1)]

GraphOf(ins) == [outs |-> Inverse(ins), ins |-> ins]

SegGraphs ==
  {GraphOf(AsEntries(fam, w)) :
     fam \in UNION {IdFamilies(n, n, MaxEdges) : n \in 1..MaxNodes},
     w \in BOOLEAN}
  \cup {CycleGraph}

\* The state after the builder has constructed instance 1 over one of the
\* input graphs.
InitSeg ==
  \E g \in SegGraphs :
    /\ obj = [i \in Objs |-> IF i = 1 THEN DirectedFields(1, g) ELSE NoObj]
    /\ frees = [a \in DirectedAllocs(1) |-> 0]
    /\ indexMem = BuilderIndex([a \in {} |-> 0], 1, g)
    /\ neighMem = BuilderNeighs([a \in {} |-> 0], 1, g)
    /\ segMem = [a \in {} |-> 0]
    /\ nextReg = 0
    /\ heapFault = FALSE
    /\ movedFrom = {}
    /\ steps = 1
    /\ lastOp = Op("directed_ctor", 1, 0)
    /\ lastReleased = <<>>
    /\ Elsewhere

\* One partitioning of the input graph.
NextSeg ==
  \E k \in 1..MaxSegs :
    /\ nextReg = 0
    /\ buildPullSegmentedGraphs(1, LabelOrder[1], k, FALSE)

SpecSeg == InitSeg /\ [][NextSeg]_vars

\* ---------------------------------------------------------------- degrees
\* num_edges_directed()
num_edges_directed(o) == IF o.directed_ THEN o.num_edges_ ELSE 2 * o.num_edges_

\* out_degree(v): out_index_[v+1] - out_index_[v]
out_degree(o, v) ==
  indexMem[o.out_index_].offs[v + 2] - indexMem[o.out_index_].offs[v + 1]

\* One construction over any of the input graphs: the undirected
\* constructor is handed the out-lists, the directed one both.
NextCtor ==
  \/ \E g \in SegGraphs, t \in BOOLEAN : CSRGraphUndirected(1, g, t)
  \/ \E g \in SegGraphs : CSRGraphDirected(1, g)

SpecCtor == Init /\ [][NextCtor]_vars

\* ---------------------------------------------------------------- NodeWeight
\* the largest weight of the operands compared
MaxWeight == 2

\* NodeWeight(v, w) as the entry <<v, w>>
NodeWeights == {<<v, w>> : v \in 0..(MaxNodes - 1), w \in 0..MaxWeight}

\* An operator< that looks at the vertex only.
LessThanByVertex(a, b) == a[1] < b[1]

\* operator<(const NodeWeight& rhs)
LessThan(a, b) == IF a[1] = b[1] THEN a[2] < b[2] ELSE a[1] < b[1]

\* operator==(const NodeWeight& rhs)
Equals(a, b) == a[1] = b[1]

\* two NodeWeight values about to be compared
InitCmp ==
  /\ obj = [i \in Objs |-> NoObj]
  /\ frees = [a \in {} |-> 0]
  /\ indexMem = [a \in {} |-> 0]
  /\ neighMem = [a \in {} |-> 0]
  /\ segMem = [a \in {} |-> 0]
  /\ nextReg = 0
  /\ heapFault = FALSE
  /\ movedFrom = {}
  /\ steps = 0
  /\ lastOp = Op("init", 0, 0)
  /\ lastReleased = <<>>
  /\ files = NoFiles
  /\ bfs = NoBfs
  /\ \E a \in NodeWeights, b \in NodeWeights :
       cmp = [pc |-> "operands", a |-> a, b |-> b]

\* a < b, b < a and a == b are evaluated
Compare ==
  /\ cmp.pc = "operands"
  /\ cmp' = [pc |-> "compared", a |-> cmp.a, b |-> cmp.b,
             lt |-> LessThan(cmp.a, cmp.b),
             gt |-> LessThan(cmp.b, cmp.a),
             eq |-> Equals(cmp.a, cmp.b)]
  /\ UNCHANGED <<obj, frees, indexMem, neighMem, segMem, nextReg, heapFault,
                 movedFrom, steps, lastOp, lastReleased, files, bfs>>

SpecCmp == InitCmp /\ [][Compare]_vars

\* ---------------------------------------------------------------- segment files
\* the edge bound of the graphs partitioned with segment files
IoEdges == 2

Min(a, b) == IF a < b THEN a ELSE b

\* One fwrite item: an int as <<n>>, an edge entry as it is.
Word(n) == <<n>>

Words(seq) == [k \in 1..Len(seq) |-> Word(seq[k])]

Ints(words) == [k \in 1..Len(words) |-> words[k][1]]

\* STORESEG: the five fwrite calls for one segment
SegmentFile(sg) ==
  <<Word(sg.numVertices), Word(sg.numEdges)>>
  \o Words(sg.graphId)
  \o [k \in 1..sg.numEdges |-> sg.edgeArray[k]]
  \o Words(sg.vertexArray)

\* fread(ptr, size, n, file) at position pos: the n items, fewer at end of file
Fread(f, pos, n) == SubSeq(f, pos + 1, Min(pos + n, Len(f)))

\* the items read into an array; elements not read keep what they held
Overlay(arr, items) ==
  [k \in 1..Len(arr) |-> IF k <= Len(items) THEN items[k] ELSE arr[k]]

\* allocate(i) of a segment whose counts were read, not counted: arrays of
\* numVertices, numEdges and numVertices + 1 elements with no set contents
allocateSized(sg) ==
  [sg EXCEPT !.graphId = [k \in 1..sg.numVertices |-> -1],
             !.vertexArray = [k \in 1..(sg.numVertices + 1) |-> -1],
             !.edgeArray = [k \in 1..sg.numEdges |-> Unwritten],
             !.cursor = [k \in 1..sg.numVertices |-> 0]]

\* A load that reads numVertices offsets instead of numVertices + 1.
LoadSegmentShortOffsets(f) ==
  LET nv == Fread(f, 0, 1)
      ne == Fread(f, Len(nv), 1)
      sg == allocateSized(
              [NewSegmentedGraph EXCEPT
                 !.numVertices = IF nv = <<>> THEN @ ELSE nv[1][1],
                 !.numEdges = IF ne = <<>> THEN @ ELSE ne[1][1]])
      at == Len(nv) + Len(ne)
      ids == Fread(f, at, sg.numVertices)
      edges == Fread(f, at + Len(ids), sg.numEdges)
      offsets == Fread(f, at + Len(ids) + Len(edges), sg.numVertices)
  IN [sg EXCEPT !.graphId = Overlay(@, Ints(ids)),
                !.edgeArray = Overlay(@, edges),
                !.vertexArray = Overlay(@, Ints(offsets))]

\* LOADSEG: the five fread calls for one segment.  The return values are
\* not looked at: a short read leaves the rest as it was.
LoadSegment(f) ==
  LET nv == Fread(f, 0, 1)
      ne == Fread(f, Len(nv), 1)
      sg == allocateSized(
              [NewSegmentedGraph EXCEPT
                 !.numVertices = IF nv = <<>> THEN @ ELSE nv[1][1],
                 !.numEdges = IF ne = <<>> THEN @ ELSE ne[1][1]])
      at == Len(nv) + Len(ne)
      ids == Fread(f, at, sg.numVertices)
      edges == Fread(f, at + Len(ids), sg.numEdges)
      offsets == Fread(f, at + Len(ids) + Len(edges), sg.numVertices + 1)
  IN [sg EXCEPT !.graphId = Overlay(@, Ints(ids)),
                !.edgeArray = Overlay(@, edges),
                !.vertexArray = Overlay(@, Ints(offsets))]

\* how the file operations of one call go
IoFailures == {"none", "open", "transfer"}

IoOp(name, failure) ==
  IF failure = "none" THEN name
  ELSE IF failure = "open" THEN name \o "_open_failed"
  ELSE name \o "_transfer_failed"

\* buildPullSegmentedGraphs compiled with STORESEG: partition, then write one
\* file per segment.  fopen's result is not tested: fwrite on the null FILE*
\* of a failed open faults.  fwrite's result is not tested: a failed write
\* leaves the created file empty and the call returns.
buildPullStore(i, label, numSegments, failure) ==
  /\ Callable(i)
  /\ nextReg < MaxRegs
  /\ numSegments >= 1
  /\ ~ReadsReleased(obj[i])
  /\ LET r == RegOf(nextReg + 1)
         o == obj[i]
         gs == Partition(InLists(o), o.num_nodes_, numSegments)
     IN /\ frees' = WithAllocs(frees, {r})
        /\ obj' = [obj EXCEPT ![i].label_to_segment = WithMem(@, label, r)]
        /\ segMem' = WithMem(segMem, r, gs)
        /\ files' = IF failure = "open" THEN files
                    ELSE [k \in (DOMAIN files) \cup 0..(numSegments - 1) |->
                            IF k >= numSegments THEN files[k]
                            ELSE IF failure = "transfer" THEN <<>>
                            ELSE SegmentFile(gs.segments[k + 1])]
  /\ heapFault' = (heapFault \/ failure = "open")
  /\ nextReg' = nextReg + 1
  /\ movedFrom' = movedFrom \ {i}
  /\ Step
  /\ lastOp' = Op(IoOp("store", failure), i, numSegments)
  /\ lastReleased' = <<>>
  /\ UNCHANGED <<indexMem, neighMem, cmp, bfs>>

\* buildPullSegmentedGraphs compiled with LOADSEG: read one file per segment
\* and return.  fopen's result is not tested: fread on the null FILE* of a
\* failed open faults.  A failed read transfers nothing.
buildPullLoad(i, label, numSegments, failure) ==
  /\ Callable(i)
  /\ nextReg < MaxRegs
  /\ failure = "none" => \A k \in 0..(numSegments - 1) : k \in DOMAIN files
  /\ LET r == RegOf(nextReg + 1)
         Read(k) == IF failure = "none" THEN files[k] ELSE <<>>
     IN /\ frees' = WithAllocs(frees, {r})
        /\ obj' = [obj EXCEPT ![i].label_to_segment = WithMem(@, label, r)]
        /\ segMem' = WithMem(segMem, r,
             IF failure = "open" THEN NewGraphSegments(numSegments)
             ELSE [numSegments |-> numSegments,
                   segments |-> [k \in 1..numSegments |-> LoadSegment(Read(k - 1))]])
  /\ heapFault' = (heapFault \/ failure = "open")
  /\ nextReg' = nextReg + 1
  /\ movedFrom' = movedFrom \ {i}
  /\ Step
  /\ lastOp' = Op(IoOp("load", failure), i, numSegments)
  /\ lastReleased' = <<>>
  /\ UNCHANGED <<indexMem, neighMem, files, cmp, bfs>>

IoGraphs ==
  {GraphOf(AsEntries(fam, w)) :
     fam \in UNION {IdFamilies(n, n, IoEdges) : n \in 1..MaxNodes},
     w \in BOOLEAN}

\* The state after the builder has constructed instance 1 over one of the
\* input graphs, before any segment file exists.
InitIo ==
  \E g \in IoGraphs :
    /\ obj = [i \in Objs |-> IF i = 1 THEN DirectedFields(1, g) ELSE NoObj]
    /\ frees = [a \in DirectedAllocs(1) |-> 0]
    /\ indexMem = BuilderIndex([a \in {} |-> 0], 1, g)
    /\ neighMem = BuilderNeighs([a \in {} |-> 0], 1, g)
    /\ segMem = [a \in {} |-> 0]
    /\ nextReg = 0
    /\ heapFault = FALSE
    /\ movedFrom = {}
    /\ steps = 1
    /\ lastOp = Op("directed_ctor", 1, 0)
    /\ lastReleased = <<>>
    /\ Elsewhere

\* numSegments of the registry stored first
StoredSegments == segMem[RegOf(1)].numSegments

\* One run of a build that partitions with any segment count, zero included;
\* or a run of the storing build followed by a run of the loading build with
\* the same segment count.
NextIo ==
  \/ \E k \in 0..MaxSegs, f \in BOOLEAN :
       /\ nextReg = 0
       /\ buildPullSegmentedGraphs(1, LabelOrder[1], k, f)
  \/ \E k \in 1..MaxSegs, x \in IoFailures :
       /\ nextReg = 0
       /\ buildPullStore(1, LabelOrder[1], k, x)
  \/ \E x \in IoFailures :
       /\ nextReg = 1
       /\ lastOp.op \in {"store", "store_transfer_failed"}
       /\ buildPullLoad(1, LabelOrder[2], StoredSegments, x)

SpecIo == InitIo /\ [][NextIo]_vars

\* ---------------------------------------------------------------- BFS driver
\* load_graph: the graphs given on the command line, as out-lists of ids
\* 0 -> 1, 0 -> 2, 1 -> 3, 3 -> 4, 2 -> 4: vertex 4 is two levels from 0
\* through 2 and three through 1 and 3
RaceGraph == << <<1, 2>>, <<3>>, <<4>>, <<4>>, <<>> >>

BfsGraphs ==
  UNION {IdFamilies(n, n, MaxEdges) : n \in 1..MaxNodes} \cup {RaceGraph}

\* parent_generated_vector_op_apply_func_0 applied to every vertex
InitialParents(n) == [v \in 1..n |-> -1]

\* main() up to the call of swarm_main: the graph is loaded and every
\* parent is -1; argv[2] names a vertex of the graph.
InitBfs ==
  /\ obj = [i \in Objs |-> NoObj]
  /\ frees = [a \in {} |-> 0]
  /\ indexMem = [a \in {} |-> 0]
  /\ neighMem = [a \in {} |-> 0]
  /\ segMem = [a \in {} |-> 0]
  /\ nextReg = 0
  /\ heapFault = FALSE
  /\ movedFrom = {}
  /\ steps = 0
  /\ lastOp = Op("init", 0, 0)
  /\ lastReleased = <<>>
  /\ files = NoFiles
  /\ cmp = NoCmp
  /\ \E outs \in BfsGraphs :
       \E start \in 0..(Len(outs) - 1) :
         bfs = [pc |-> "main",
                h_src_offsets |-> PrefixOffsets(outs),
                h_edge_dst |-> Flatten(outs),
                start_vertex |-> start,
                parent |-> InitialParents(Len(outs)),
                tasks |-> {}]

\* A filter that lets every vertex through.
toFilterAll(parent, v) == TRUE

\* toFilter(v)
toFilter(parent, v) == parent[v + 1] = -1

\* the edge loop of one task from edge i on: the parents written and the
\* tasks pushed
RECURSIVE EdgeLoop(_, _, _, _, _, _)
EdgeLoop(h_edge_dst, st, level, src, i, edgeLast) ==
  IF i >= edgeLast THEN st
  ELSE LET dst == h_edge_dst[i + 1]
       IN EdgeLoop(h_edge_dst,
                   IF toFilter(st.parent, dst)
                   THEN [parent |-> [st.parent EXCEPT ![dst + 1] = src],
                         tasks |-> st.tasks \cup {<<level + 1, dst>>}]
                   ELSE st,
                   level, src, i + 1, edgeLast)

\* for_each_prio runs next a task of the lowest level in the queue
Runnable(tasks) == {t \in tasks : \A u \in tasks : t[1] <= u[1]}

BfsUnchanged ==
  UNCHANGED <<obj, frees, indexMem, neighMem, segMem, nextReg, heapFault,
              movedFrom, steps, lastOp, lastReleased, files, cmp>>

\* swarm_main up to for_each_prio: the start vertex is its own parent and
\* the only task, at level 0
swarm_main ==
  /\ bfs.pc = "main"
  /\ bfs' = [bfs EXCEPT !.pc = "for_each_prio",
                        !.parent[bfs.start_vertex + 1] = bfs.start_vertex,
                        !.tasks = {<<0, bfs.start_vertex>>}]
  /\ BfsUnchanged

\* one task (level, src) of for_each_prio, run as a whole
Task ==
  /\ bfs.pc = "for_each_prio"
  /\ \E t \in Runnable(bfs.tasks) :
       LET src == t[2]
           st == EdgeLoop(bfs.h_edge_dst,
                          [parent |-> bfs.parent, tasks |-> bfs.tasks \ {t}],
                          t[1], src,
                          bfs.h_src_offsets[src + 1], bfs.h_src_offsets[src + 2])
       IN bfs' = [bfs EXCEPT !.parent = st.parent, !.tasks = st.tasks]
  /\ BfsUnchanged

\* for_each_prio returns when no task is left; main writes parent[] out
Finish ==
  /\ bfs.pc = "for_each_prio"
  /\ bfs.tasks = {}
  /\ bfs' = [bfs EXCEPT !.pc = "done"]
  /\ BfsUnchanged

NextBfs == swarm_main \/ Task \/ Finish

SpecBfs == InitBfs /\ [][NextBfs]_vars

\* ---------------------------------------------------------------- ownership claims
\* the four index and neighbor pointers of an instance
StoragePtrs(o) ==
  {o.out_index_, o.out_neighbors_, o.in_index_, o.in_neighbors_}

CatalogRegs(o) == {o.label_to_segment[l] : l \in DOMAIN o.label_to_segment}

IsMove(op) == op.op \in {"move_ctor", "move_assign"}

IsCopy(op) == op.op \in {"copy_ctor", "copy_assign"}

\* C1: no allocation (index, neighbor, flags array or segment registry) is
\* passed to delete more than once, whatever sequence of constructions,
\* copies, moves, assignments, partitionings and destructions has run.
C1_NoDoubleRelease ==
  \A a \in Allocated : frees[a] <= 1

\* C2: a move from an owning instance a into b hands b everything a owned -
\* the four index and neighbor arrays, the flags array and the segment
\* catalog - and leaves a holding none of them.
C2_MoveTransfersEverything ==
  [][\A a, b \in Objs :
       (IsMove(lastOp') /\ lastOp'.dst = b /\ lastOp'.src = a /\ a # b
          /\ obj[a].destructor_free /\ obj[a].out_index_ # NULL)
       => /\ obj'[b].out_index_ = obj[a].out_index_
          /\ obj'[b].out_neighbors_ = obj[a].out_neighbors_
          /\ obj'[b].in_index_ = obj[a].in_index_
          /\ obj'[b].in_neighbors_ = obj[a].in_neighbors_
          /\ obj'[b].flags_ = obj[a].flags_
          /\ obj'[b].label_to_segment = obj[a].label_to_segment
          /\ StoragePtrs(obj'[a]) = {NULL}
          /\ obj'[a].flags_ = NULL
          /\ obj'[a].label_to_segment = EmptyMap]_vars

\* C3: the destructor of an instance that was the source of a move releases
\* nothing, whether or not segment schemes had been registered on it.
C3_DestroyMovedFromIsNoOp ==
  (lastOp.op = "destroy" /\ lastOp.dst \in movedFrom) => lastReleased = <<>>

\* C4: a copy (constructor or assignment) of a into b leaves a unchanged,
\* makes b hold a's index and neighbor arrays without owning them, and the
\* destructor of b then releases nothing.
C4_CopyIsNonOwningAlias ==
  [][\A a, b \in Objs :
       (IsCopy(lastOp') /\ lastOp'.dst = b /\ lastOp'.src = a /\ a # b)
       => /\ obj'[a] = obj[a]
          /\ obj'[b].out_index_ = obj[a].out_index_
          /\ obj'[b].out_neighbors_ = obj[a].out_neighbors_
          /\ obj'[b].in_index_ = obj[a].in_index_
          /\ obj'[b].in_neighbors_ = obj[a].in_neighbors_
          /\ ~obj'[b].destructor_free
          /\ DestructorReleases(obj'[b]) = <<>>]_vars

\* C4 witness: a copy of a live owner that still holds unreleased arrays.
C4_Witness ==
  /\ IsCopy(lastOp)
  /\ lastOp.dst # lastOp.src
  /\ obj[lastOp.src].destructor_free
  /\ obj[lastOp.src].out_index_ # NULL
  /\ ~Released(obj[lastOp.src].out_index_)
  /\ obj[lastOp.dst].out_index_ = obj[lastOp.src].out_index_

\* C5: no live instance holds an index or neighbor pointer to storage that
\* has been released.
C5_NoDanglingNeighborhood ==
  \A i \in Objs :
    Live(i) => \A p \in StoragePtrs(obj[i]) : ~Released(p)

\* C6: an instance that is a transpose view or does not own its storage
\* releases nothing when it is destroyed or assigned to.
C6_ViewsReleaseNothing ==
  [][\A b \in Objs :
       (/\ lastOp'.op \in {"destroy", "copy_assign", "move_assign"}
        /\ lastOp'.dst = b
        /\ (obj[b].is_transpose_ \/ ~obj[b].destructor_free))
       => /\ lastReleased' = <<>>
          /\ frees' = frees]_vars

\* C6 witness: a transpose view over unreleased storage has been destroyed
\* or assigned to, and the storage is still unreleased.
C6_Witness ==
  /\ lastOp.op = "move_assign"
  /\ lastOp.dst # lastOp.src
  /\ obj[lastOp.dst].is_transpose_
  /\ \E i \in Objs : /\ i # lastOp.dst
                     /\ Live(i)
                     /\ obj[i].destructor_free
                     /\ obj[i].out_index_ # NULL
                     /\ ~Released(obj[i].out_index_)

\* C10: when a partitioning replaces the catalog entry of a label, the
\* registry it replaces has been released exactly once.
C10_RebuildReleasesPrior ==
  [][\A b \in Objs, l \in Labels :
       (/\ lastOp'.op = "build"
        /\ lastOp'.dst = b
        /\ l \in DOMAIN obj[b].label_to_segment
        /\ obj'[b].label_to_segment[l] # obj[b].label_to_segment[l])
       => frees'[obj[b].label_to_segment[l]] = 1]_vars

\* ---------------------------------------------------------------- partition claims
\* in_neigh(d) of instance i, read from the arrays the builder handed over
InboundOf(i, d) ==
  LET ix == indexMem[obj[i].in_index_]
  IN SubSeq(neighMem[ix.base], ix.offs[d + 1] + 1, ix.offs[d + 2])

\* every inbound edge of instance i as a pair <<d, s>>
InboundEdges(i) ==
  UNION {{<<d, s>> : s \in Range(InboundOf(i, d))} :
           d \in 0..(obj[i].num_nodes_ - 1)}

\* the edges a segment holds, as pairs <<d, s>> in edgeArray order
SegEdgeSeq(sg) ==
  [p \in 1..Len(sg.edgeArray) |->
     <<sg.graphId[CHOOSE j \in 1..sg.numVertices :
                    sg.vertexArray[j] < p /\ p <= sg.vertexArray[j + 1]],
       sg.edgeArray[p]>>]

\* the entries a segment stores for vertex d
StoredFor(sg, d) ==
  IF d \in Range(sg.graphId)
  THEN LET j == CHOOSE x \in 1..Len(sg.graphId) : sg.graphId[x] = d
       IN SubSeq(sg.edgeArray, sg.vertexArray[j] + 1, sg.vertexArray[j + 1])
  ELSE <<>>

\* the counter the counting pass holds for vertex d in a segment
CountedFor(sg, d) ==
  IF \E k \in 1..Len(sg.counts) : sg.counts[k][1] = d
  THEN sg.counts[CHOOSE k \in 1..Len(sg.counts) : sg.counts[k][1] = d][2]
  ELSE 0

RECURSIVE SumOverSegments(_, _, _)
SumOverSegments(gs, e, k) ==
  IF k = 0 THEN 0
  ELSE Count(SegEdgeSeq(gs.segments[k]), e) + SumOverSegments(gs, e, k - 1)

\* ceil(n / k) for n >= 1
CeilDiv(n, k) == CHOOSE r \in 0..n : r * k >= n /\ (r - 1) * k < n

\* the entries of seq whose vertex id falls in segment k (0-based) of width r
RECURSIVE InSegment(_, _, _)
InSegment(seq, k, r) ==
  IF seq = <<>> THEN <<>>
  ELSE (IF Head(seq)[1] \div r = k THEN <<Head(seq)>> ELSE <<>>)
       \o InSegment(Tail(seq), k, r)

\* the registries instances hold in their catalogs: <<i, registry>>
Partitioned ==
  UNION {{<<i, r>> : r \in CatalogRegs(obj[i])} : i \in {x \in Objs : Live(x)}}

\* C7: the segments of a registry hold, between them, exactly the inbound
\* edges of the graph with their multiplicities, and every inbound edge is
\* held by exactly one segment.
C7_PartitionCompleteDisjoint ==
  \A ir \in Partitioned :
    LET i == ir[1]
        gs == segMem[ir[2]]
        held == UNION {Range(SegEdgeSeq(gs.segments[k])) : k \in 1..gs.numSegments}
    IN \A e \in InboundEdges(i) \cup held :
         /\ SumOverSegments(gs, e, gs.numSegments) = Count(InboundOf(i, e[1]), e[2])
         /\ Cardinality({k \in 1..gs.numSegments :
                           e \in Range(SegEdgeSeq(gs.segments[k]))}) = 1

\* C7 witness: a registry of several segments, two of them holding edges.
C7_Witness ==
  \E ir \in Partitioned :
    LET gs == segMem[ir[2]]
    IN \E k1, k2 \in 1..gs.numSegments :
         /\ k1 # k2
         /\ gs.segments[k1].numEdges > 0
         /\ gs.segments[k2].numEdges > 0

\* C8 as stated: every inbound edge s -> d is held by segment
\* floor(d / segmentRange) and by no other.
C8_PlacedByDestination ==
  \A ir \in Partitioned :
    LET i == ir[1]
        gs == segMem[ir[2]]
        r == CeilDiv(obj[i].num_nodes_, gs.numSegments)
    IN \A e \in InboundEdges(i) :
         \A k \in 1..gs.numSegments :
           (e \in Range(SegEdgeSeq(gs.segments[k]))) <=> (k - 1 = e[1] \div r)

\* C8 amended: every inbound edge s -> d is held by segment
\* floor(id(s) / segmentRange), segmentRange = ceil(num_nodes / numSegments),
\* and by no other: the segment is determined by the source vertex alone.
C8_PlacedBySource ==
  \A ir \in Partitioned :
    LET i == ir[1]
        gs == segMem[ir[2]]
        r == CeilDiv(obj[i].num_nodes_, gs.numSegments)
    IN \A e \in InboundEdges(i) :
         \A k \in 1..gs.numSegments :
           (e \in Range(SegEdgeSeq(gs.segments[k]))) <=> (k - 1 = e[2][1] \div r)

\* C8 witness: a segment holds an edge whose destination lies in the range
\* of another segment.
C8_Witness ==
  \E ir \in Partitioned :
    LET i == ir[1]
        gs == segMem[ir[2]]
        r == CeilDiv(obj[i].num_nodes_, gs.numSegments)
    IN \E k \in 1..gs.numSegments :
         \E e \in Range(SegEdgeSeq(gs.segments[k])) :
           /\ k - 1 = e[2][1] \div r
           /\ k - 1 # e[1] \div r

\* C9: for every vertex d, segment k has counted, and then stores in order
\* and with their weights, exactly the inbound neighbors s of d with
\* id(s) / segmentRange = k; for the directed 4-cycle in 2 segments, edge
\* 3 -> 0 is in segment 1 and not in segment 0.
C9_CountAndFillBySourceId ==
  \A ir \in Partitioned :
    LET i == ir[1]
        gs == segMem[ir[2]]
        n == obj[i].num_nodes_
        r == CeilDiv(n, gs.numSegments)
    IN /\ \A d \in 0..(n - 1), k \in 1..gs.numSegments :
            /\ CountedFor(gs.segments[k], d) = Len(InSegment(InboundOf(i, d), k - 1, r))
            /\ StoredFor(gs.segments[k], d) = InSegment(InboundOf(i, d), k - 1, r)
       /\ (n = 4 /\ gs.numSegments = 2
             /\ [d \in 1..4 |-> InboundOf(i, d - 1)] = CycleGraph.ins)
          => /\ <<0, Entry(3)>> \in Range(SegEdgeSeq(gs.segments[2]))
             /\ <<0, Entry(3)>> \notin Range(SegEdgeSeq(gs.segments[1]))

\* C9 witness: the directed 4-cycle partitioned into 2 segments, with edge
\* 3 -> 0 counted and stored in segment 1.
C9_Witness ==
  \E ir \in Partitioned :
    LET i == ir[1]
        gs == segMem[ir[2]]
    IN /\ obj[i].num_nodes_ = 4
       /\ gs.numSegments = 2
       /\ [d \in 1..4 |-> InboundOf(i, d - 1)] = CycleGraph.ins
       /\ CountedFor(gs.segments[2], 0) = 1
       /\ StoredFor(gs.segments[2], 0) = <<Entry(3)>>

\* ---------------------------------------------------------------- file and argument claims
IoFailed ==
  {"store_open_failed", "store_transfer_failed",
   "load_open_failed", "load_transfer_failed"}

\* C11: a call of buildPullSegmentedGraphs in load or store mode whose
\* segment file cannot be opened, read or written ends with an error for
\* the caller and leaves the catalog as it was, with no registry registered
\* under the label.
C11_IoFailureRegistersNothing ==
  [][lastOp'.op \in IoFailed
       => /\ Outcome' = "error"
          /\ obj'[lastOp'.dst].label_to_segment = obj[lastOp'.dst].label_to_segment]_vars

Lookups == {"getSegmentedGraph", "getNumSegments"}

\* C12: getSegmentedGraph(label, id) and getNumSegments(label) called with
\* a label the instance has no registry for yield a lookup error that the
\* caller can tell from a result.
C12_UnknownLabelIsLookupError ==
  [][(/\ lastOp'.op \in Lookups
      /\ \E l \in Labels :
           /\ l \notin DOMAIN obj[lastOp'.dst].label_to_segment
           /\ l \in DOMAIN obj'[lastOp'.dst].label_to_segment)
       => Outcome' = "error"]_vars

\* C13: buildPullSegmentedGraphs called with numSegments = 0 is reported to
\* the caller as a configuration error and registers no registry: the
\* catalog stays as it was, with no registry of any other segment count
\* put in its place.
C13_ZeroSegmentsRejected ==
  [][(lastOp'.op = "build" /\ lastOp'.src = 0)
       => /\ Outcome' = "error"
          /\ obj'[lastOp'.dst].label_to_segment = obj[lastOp'.dst].label_to_segment]_vars

\* the registry the storing run registered and the one the loading run read
StoredRegistry == segMem[RegOf(1)]

LoadedRegistry == segMem[RegOf(2)]

\* the loading run has read, without failure, the files the storing run
\* wrote in full
RoundTripDone ==
  /\ lastOp.op = "load"
  /\ \A k \in 1..StoredRegistry.numSegments :
       files[k - 1] = SegmentFile(StoredRegistry.segments[k])

\* C14: storing the segments of a partitioning and loading them from the
\* same path gives, for every segment, the numVertices, numEdges, graphId,
\* edgeArray and vertexArray the producing run held.
C14_StoreLoadRoundTrip ==
  RoundTripDone =>
    /\ LoadedRegistry.numSegments = StoredRegistry.numSegments
    /\ \A k \in 1..StoredRegistry.numSegments :
         LET a == StoredRegistry.segments[k]
             b == LoadedRegistry.segments[k]
         IN /\ b.numVertices = a.numVertices
            /\ b.numEdges = a.numEdges
            /\ b.graphId = a.graphId
            /\ b.edgeArray = a.edgeArray
            /\ b.vertexArray = a.vertexArray

\* C14 witness: a round trip of two segments, one of them holding two
\* weighted edges into two vertices.
C14_Witness ==
  /\ RoundTripDone
  /\ LoadedRegistry.numSegments = 2
  /\ \E k \in 1..2 :
       /\ LoadedRegistry.segments[k].numVertices = 2
       /\ LoadedRegistry.segments[k].numEdges = 2
       /\ \A e \in 1..2 : IsNodeWeight(LoadedRegistry.segments[k].edgeArray[e])

\* ---------------------------------------------------------------- value claims
RECURSIVE SumOutDegrees(_, _)
SumOutDegrees(o, n) ==
  IF n <= 0 THEN 0 ELSE out_degree(o, n - 1) + SumOutDegrees(o, n - 1)

\* C15: for every container constructed over index arrays, directed or
\* undirected, the out-degrees of all vertices add up to
\* num_edges_directed(); this includes an undirected container whose
\* out-index spans an odd number of entries.
C15_DegreesSumToDirectedEdges ==
  \A i \in Objs :
    (Live(i) /\ obj[i].out_index_ \in DOMAIN indexMem)
      => SumOutDegrees(obj[i], obj[i].num_nodes_) = num_edges_directed(obj[i])

\* the operands compared have the same vertex component
SameVertexCompared == cmp.pc = "compared" /\ cmp.a[1] = cmp.b[1]

\* C16: equality and ordering of NodeWeight values look at the vertex
\* component only: for a and b with the same vertex and any weights,
\* a == b holds and neither a < b nor b < a holds.
C16_CompareByVertexOnly ==
  SameVertexCompared => (cmp.eq /\ ~cmp.lt /\ ~cmp.gt)

\* C16 as the code has it: for a and b with the same vertex, a == b holds
\* whatever the weights, and a < b holds exactly when a's weight is below
\* b's.
C16_EqualByVertexOrderedByWeight ==
  SameVertexCompared =>
    /\ cmp.eq
    /\ cmp.lt <=> (cmp.a[2] < cmp.b[2])
    /\ cmp.gt <=> (cmp.b[2] < cmp.a[2])

\* C16 witness: same vertex, different weights, compared equal and ordered.
C16_Witness ==
  /\ SameVertexCompared
  /\ cmp.a[2] < cmp.b[2]
  /\ cmp.eq
  /\ cmp.lt

\* ---------------------------------------------------------------- catalog and view claims
\* C17: every registry pointer in the catalog of a live instance refers to
\* a registry that has not been released, also after the instance has been
\* the target of a copy or move assignment, so a lookup never reads a
\* released registry.
C17_CatalogHoldsLiveRegistries ==
  \A i \in Objs :
    Live(i) => \A r \in CatalogRegs(obj[i]) : ~Released(r)

\* instance i is a transpose view over index storage that a live owner
\* holds as its in-index
ViewOfOwner(i) ==
  /\ Live(i)
  /\ obj[i].is_transpose_
  /\ obj[i].out_index_ \in Allocated
  /\ \E k \in Objs \ {i} :
       /\ Live(k)
       /\ obj[k].destructor_free
       /\ ~obj[k].is_transpose_
       /\ obj[k].in_index_ = obj[i].out_index_

\* C18: the transpose marker survives a move: the instance that a transpose
\* view was moved into is a transpose view itself, and its destruction
\* releases nothing of the storage shared with the owner.
C18_MoveKeepsTransposeMarker ==
  [][(/\ IsMove(lastOp')
      /\ lastOp'.src # lastOp'.dst
      /\ ViewOfOwner(lastOp'.src))
       => /\ obj'[lastOp'.dst].is_transpose_
          /\ DestructorReleases(obj'[lastOp'.dst]) = <<>>]_vars

\* ---------------------------------------------------------------- segment id range
\* C19: for a graph of at least one vertex whose in-neighbor ids are below
\* num_nodes, and any numSegments >= 1, also one above num_nodes, every
\* segment_id of the counting and fill passes is at least 0 and below
\* numSegments: no pass reads past the registry's segments, and the edge is
\* found in the segment with that id.
C19_SegmentIdsInRange ==
  /\ ~heapFault
  /\ \A ir \in Partitioned :
       LET i == ir[1]
           gs == segMem[ir[2]]
           segmentRange == SegmentRange(obj[i].num_nodes_, gs.numSegments)
       IN \A pair \in InboundEdges(i) :
            LET segment_id == SegmentIdOfPair(pair, segmentRange)
            IN /\ 0 <= segment_id
               /\ segment_id < gs.numSegments
               /\ pair[2] \in Range(StoredFor(gs.segments[segment_id + 1], pair[1]))

\* C19 witness: more segments than vertices, and a graph whose highest
\* vertex is an in-neighbor and lands in the last segment that can be used.
C19_Witness ==
  \E ir \in Partitioned :
    LET i == ir[1]
        gs == segMem[ir[2]]
        n == obj[i].num_nodes_
    IN /\ gs.numSegments > n
       /\ n >= 2
       /\ \E pair \in InboundEdges(i) :
            /\ pair[2][1] = n - 1
            /\ SegmentIdOfPair(pair, SegmentRange(n, gs.numSegments)) = n - 1
            /\ gs.segments[n].numEdges >= 1

\* ---------------------------------------------------------------- BFS tree
BfsVertices == 0..(Len(bfs.parent) - 1)

\* the vertices that vertex v has an edge to
OutOf(v) ==
  {bfs.h_edge_dst[i] : i \in (bfs.h_src_offsets[v + 1] + 1)..bfs.h_src_offsets[v + 2]}

\* the number of edges on a shortest path from the start vertex, -1 for a
\* vertex that cannot be reached
RECURSIVE LevelsFrom(_, _, _)
LevelsFrom(level, frontier, l) ==
  LET next == {w \in UNION {OutOf(v) : v \in frontier} : level[w] = -1}
  IN IF next = {} THEN level
     ELSE LevelsFrom([v \in DOMAIN level |-> IF v \in next THEN l + 1 ELSE level[v]],
                     next, l + 1)

BfsLevels ==
  LevelsFrom([v \in BfsVertices |-> IF v = bfs.start_vertex THEN 0 ELSE -1],
             {bfs.start_vertex}, 0)

\* C20: when the tasks of the frontier run in non-decreasing level order,
\* the parent array the driver ends with is a breadth-first tree rooted at
\* the start vertex: the start vertex is its own parent, parent[v] is -1
\* exactly for the vertices that cannot be reached, and for every other
\* reached v the edge parent[v] -> v exists and parent[v] is one level
\* closer to the start than v.
C20_ParentIsBfsTree ==
  bfs.pc = "done" =>
    /\ bfs.parent[bfs.start_vertex + 1] = bfs.start_vertex
    /\ \A v \in BfsVertices :
         LET p == bfs.parent[v + 1]
         IN /\ (p = -1) <=> (BfsLevels[v] = -1)
            /\ (p # -1 /\ v # bfs.start_vertex)
                 => /\ p \in BfsVertices
                    /\ v \in OutOf(p)
                    /\ BfsLevels[p] = BfsLevels[v] - 1

\* C20 witness: a finished search from vertex 0 of the graph in which
\* vertex 4 is reached by a task of level 1 and by one of level 2; the
\* former is its parent, and vertex 3 hangs two levels down.
C20_Witness ==
  /\ bfs.pc = "done"
  /\ bfs.h_edge_dst = Flatten(RaceGraph)
  /\ bfs.start_vertex = 0
  /\ bfs.parent[5] = 2
  /\ bfs.parent[4] = 1
  /\ BfsLevels[3] = 2

====
